---- MODULE Spec2Model ----
(***************************************************************************)
(* Payment-event fulfillment pipeline of fastapi_app: the /webhook         *)
(* handler, the processing_locks table used as a mutex, the payments and   *)
(* users tables, the /create-order checkout and the background task        *)
(* process_payment_and_send_email.                                         *)
(*                                                                         *)
(* Every database statement that commits is one atomic step; handlers of   *)
(* different requests may interleave between such steps.                   *)
(***************************************************************************)
EXTENDS Naturals, Integers, Sequences, FiniteSets, TLC

\* ------------------------------------------------------------------ bounds
MaxDeliveries == 2
MaxInvites == 2

Deliveries == 1..MaxDeliveries

\* ------------------------------------------------------------ input domains
PaymentIds == {"pay_123", "pay_999"}
Emails == {"a@x.com", "b@x.com"}
\* The emails that go through checkout; b@x.com pays without ever having
\* placed an order.
CheckoutEmails == {"a@x.com"}
BatchTypes == {"morning", "evening"}
Events == {"payment.captured", "payment.failed"}
Secrets == {"", "whsec"}
SignatureKinds == {"valid", "wrong", "missing"}
Statuses == {"processing", "failed", "completed"}

None == "None"
NoLink == 0

\* --------------------------------------------------------- ORM declarations
\* Column attributes of models.Payment (the relationship "user" included).
PaymentColumns ==
    {"id", "user_id", "razorpay_payment_id", "razorpay_order_id", "amount",
     "currency", "status", "created_at", "user"}

\* Fields of schemas.PaymentCreate, the keys of payment.model_dump().
PaymentCreateFields ==
    {"razorpay_payment_id", "razorpay_order_id", "amount", "currency",
     "status", "invite_link", "email_sent"}

\* Fields of schemas.UserCreate; pydantic drops any other keyword it is given.
UserCreateFields == {"name", "email", "phone"}

VARIABLES
    webhook_secret,   \* settings["RAZORPAY_WEBHOOK_SECRET"]
    locks,            \* processing_locks: payment id -> number of rows
    payments,         \* payments: payment id -> sequence of rows
    users,            \* users: email -> row or None
    issued,           \* invite links the Telegram API has issued so far
    wpc,              \* /webhook request -> position in the handler
    wreq,             \* /webhook request -> payload (payment id, email)
    existing_payment, \* /webhook request -> local existing_payment
    resp,             \* /webhook request -> response sent
    task,             \* /webhook request -> state of its background task
    outbox,           \* emails the SMTP transport has accepted
    wmsg,             \* /webhook request -> header received, event read at 301
    poll,             \* the /get-invite-link request
    retrieval,        \* the last /retrieve-invite-link request and its response
    flag,             \* payment id -> email_sent as written and as read back
    sigcheck          \* the last verify_signature call: arguments and result

vars == <<webhook_secret, locks, payments, users, issued, wpc, wreq,
          existing_payment, resp, task, outbox, wmsg, poll, retrieval, flag,
          sigcheck>>

db == <<locks, payments, users, issued>>


\* ------------------------------------------------------------------- rows
NoRow == [status |-> None, user |-> None]
NoUser == [invite_link |-> NoLink, batch |-> None]
NoReq == [id |-> None, email |-> None]
NoSignature == [present |-> FALSE, hex |-> <<>>]
NoMsg == [signature |-> None, event |-> None]
NoPoll == [pc |-> "idle", paymentId |-> None, reads |-> 0, code |-> 0,
           inviteLink |-> NoLink]
NoRetrieval == [payment_id |-> None, code |-> 0, status |-> None,
                inviteLink |-> NoLink]
NoFlag == [written |-> None, read |-> None]
NoSigCheck == [body |-> None, signature |-> None, secret |-> None,
               result |-> None]

\* ---------------------------------------------------------- pure functions
\* hmac.new(secret, body, sha256).hexdigest(): distinct (secret, body) pairs
\* give distinct digests.
HmacHex(secret, body) == <<secret, body>>

\* The x-razorpay-signature header a sender of the given kind attaches. The
\* payment provider signs with the secret it was given ("whsec").
SignatureHeader(kind, body) ==
    CASE kind = "valid"   -> [present |-> TRUE, hex |-> HmacHex("whsec", body)]
      [] kind = "wrong"   -> [present |-> TRUE, hex |-> HmacHex("forged", body)]
      [] kind = "missing" -> NoSignature

\* Mutant of verify_signature: the guard on an unset secret is missing, the
\* digest is computed under the empty key.
verify_signature_without_secret_guard(body, signature, secret) ==
    IF ~signature.present THEN "TypeError"
    ELSE IF signature.hex = HmacHex(secret, body) THEN "True" ELSE "False"

\* verify_signature: False for an unset secret; hmac.compare_digest raises
\* TypeError when the header is absent (signature is None).
verify_signature(body, signature, secret) ==
    IF secret = "" THEN "False"
    ELSE IF ~signature.present THEN "TypeError"
    ELSE IF signature.hex = HmacHex(secret, body) THEN "True" ELSE "False"

\* db.query(Payment).filter(razorpay_payment_id == payment_id).first()
get_payment_by_payment_id(P, payment_id) ==
    IF P[payment_id] = <<>> THEN NoRow ELSE Head(P[payment_id])

\* crud.update_payment_status: writes the status column of the row found; the
\* email_sent argument lands on no column of models.Payment.
update_payment_status(P, payment_id, status) ==
    IF P[payment_id] = <<>> THEN P
    ELSE [P EXCEPT ![payment_id] =
            <<[Head(@) EXCEPT !.status = status]>> \o Tail(@)]

\* models.Payment(**payment.model_dump(), user_id=user_id): the declarative
\* constructor raises TypeError for a keyword that is no attribute of the class.
PaymentConstructorRaises == PaymentCreateFields \ PaymentColumns # {}

\* Reading an attribute the mapped class does not declare raises
\* AttributeError.
AttributeReadRaises(column) == column \notin PaymentColumns

\* payments.razorpay_payment_id is unique=True: a second row is refused.
PaymentInsertConflicts(P, payment_id) == P[payment_id] # <<>>

\* Mutant of LockInsertConflicts: the lock is one row for the whole table, the
\* INSERT is refused while any payment id is locked.
LockInsertConflictsOnAnyRow(L, payment_id) == \E q \in PaymentIds : L[q] > 0

\* Mutant of LockInsertConflicts: the table has no primary key.
LockInsertNeverConflicts(L, payment_id) == FALSE

\* processing_locks.payment_id is the primary key: the INSERT of a second row
\* for the id raises IntegrityError at commit.
LockInsertConflicts(L, payment_id) == L[payment_id] > 0

\* Mutant of remove_processing_lock: the query has no filter on payment_id
\* and deletes the first lock row of the table.
remove_processing_lock_unfiltered(L, payment_id) ==
    IF \E q \in PaymentIds : L[q] > 0
    THEN LET first == CHOOSE q \in PaymentIds : L[q] > 0
         IN  [L EXCEPT ![first] = @ - 1]
    ELSE L

\* crud.remove_processing_lock: deletes the first row found, if any.
remove_processing_lock(L, payment_id) ==
    IF L[payment_id] > 0 THEN [L EXCEPT ![payment_id] = @ - 1] ELSE L

\* crud.get_user_by_email
get_user_by_email(U, email) == U[email]

\* schemas.UserCreate(..., invite_link=link).model_dump(): the link survives
\* only if UserCreate declares the field.
UserCreateLink(link) == IF "invite_link" \in UserCreateFields THEN link ELSE NoLink


\* ------------------------------------------------------------------- Init
\* create_db_and_tables creates the missing tables and keeps what the
\* database file already holds: the service starts on the payments and users
\* it finds, with no request in flight and so no lock row.
StoredUsers ==
    {NoUser} \cup [invite_link : {NoLink, 1}, batch : {"morning"}]

StoredPayments ==
    {<<>>} \cup {<<[status |-> s, user |-> "a@x.com"]>> : s \in Statuses}

Init ==
    /\ webhook_secret \in Secrets
    /\ locks = [p \in PaymentIds |-> 0]
    /\ users \in [Emails -> StoredUsers]
    /\ users["b@x.com"] = NoUser
    /\ payments \in [PaymentIds -> StoredPayments]
    /\ users["a@x.com"] = NoUser => \A p \in PaymentIds : payments[p] = <<>>
    /\ issued = IF users["a@x.com"].invite_link = NoLink THEN 0 ELSE 1
    /\ wpc = [d \in Deliveries |-> "idle"]
    /\ wreq = [d \in Deliveries |-> NoReq]
    /\ existing_payment = [d \in Deliveries |-> NoRow]
    /\ resp = [d \in Deliveries |-> ""]
    /\ task = [d \in Deliveries |-> "none"]
    /\ outbox = {}
    /\ wmsg = [d \in Deliveries |-> NoMsg]
    /\ poll = NoPoll
    /\ retrieval = NoRetrieval
    /\ flag = [p \in PaymentIds |-> NoFlag]
    /\ sigcheck = NoSigCheck

\* ------------------------------------------------------------- /webhook
\* The locals email and existing_payment are not read again on the path
\* taken; the payment id stays (it is the argument of the lock's release and
\* of the background task).
DropLocals(d) ==
    /\ wreq' = [wreq EXCEPT ![d].email = None]
    /\ existing_payment' = [existing_payment EXCEPT ![d] = NoRow]

\* The response is sent.
Finish(d, response) ==
    /\ wpc' = [wpc EXCEPT ![d] = "done"]
    /\ resp' = [resp EXCEPT ![d] = response]
    /\ DropLocals(d)

\* Mutant of WebhookReceive: every verified event is processed as a capture.
WebhookReceiveAnyEvent(d) ==
    /\ wpc[d] = "idle"
    /\ IF d = 1 THEN TRUE ELSE wpc[d - 1] # "idle"
    /\ \E ev \in Events, kind \in SignatureKinds, p \in PaymentIds, e \in Emails :
         LET body == [event |-> ev, id |-> p, email |-> e]
             v == verify_signature(body, SignatureHeader(kind, body), webhook_secret)
         IN  /\ wmsg' = [wmsg EXCEPT ![d] =
                    [signature |-> kind, event |-> IF v = "True" THEN ev ELSE None]]
             /\ CASE v = "TypeError" -> Finish(d, "500 Internal Server Error")
                   [] v = "False" -> Finish(d, "400 Invalid signature")
                   [] OTHER ->
                        /\ wpc' = [wpc EXCEPT ![d] = "acquire"]
                        /\ wreq' = [wreq EXCEPT ![d] = [id |-> p, email |-> e]]
                        /\ UNCHANGED <<resp, existing_payment>>
    /\ UNCHANGED <<webhook_secret, sigcheck, retrieval, flag, poll, db, task, outbox>>

\* main.py 283-305: read the request, verify the signature, dispatch on the
\* event.
WebhookReceive(d) ==
    /\ wpc[d] = "idle"
    /\ IF d = 1 THEN TRUE ELSE wpc[d - 1] # "idle"
    /\ \E ev \in Events, kind \in SignatureKinds, p \in PaymentIds, e \in Emails :
         LET body == [event |-> ev, id |-> p, email |-> e]
             v == verify_signature(body, SignatureHeader(kind, body), webhook_secret)
         IN  /\ wmsg' = [wmsg EXCEPT ![d] =
                    [signature |-> kind, event |-> IF v = "True" THEN ev ELSE None]]
             /\ CASE v = "TypeError" -> Finish(d, "500 Internal Server Error")
                   [] v = "False" -> Finish(d, "400 Invalid signature")
                   [] v = "True" /\ ev # "payment.captured" -> Finish(d, "ok")
                   [] OTHER ->
                        /\ wpc' = [wpc EXCEPT ![d] = "acquire"]
                        /\ wreq' = [wreq EXCEPT ![d] = [id |-> p, email |-> e]]
                        /\ UNCHANGED <<resp, existing_payment>>
    /\ UNCHANGED <<webhook_secret, sigcheck, retrieval, flag, poll, db, task, outbox>>

\* Mutant of WebhookAcquire: the IntegrityError path also calls
\* remove_processing_lock, as the other early returns do.
WebhookAcquireReleasesOnConflict(d) ==
    /\ wpc[d] = "acquire"
    /\ IF LockInsertConflicts(locks, wreq[d].id)
       THEN /\ Finish(d, "Already processing.")
            /\ locks' = remove_processing_lock(locks, wreq[d].id)
       ELSE /\ locks' = [locks EXCEPT ![wreq[d].id] = @ + 1]
            /\ wpc' = [wpc EXCEPT ![d] = "check"]
            /\ UNCHANGED <<resp, wreq, existing_payment>>
    /\ UNCHANGED <<webhook_secret, sigcheck, retrieval, flag, wmsg, poll, payments, users, issued, task, outbox>>

\* main.py 308-316: INSERT the lock row and commit.
WebhookAcquire(d) ==
    /\ wpc[d] = "acquire"
    /\ IF LockInsertConflicts(locks, wreq[d].id)
       THEN /\ Finish(d, "Already processing.")
            /\ UNCHANGED locks
       ELSE /\ locks' = [locks EXCEPT ![wreq[d].id] = @ + 1]
            /\ wpc' = [wpc EXCEPT ![d] = "check"]
            /\ UNCHANGED <<resp, wreq, existing_payment>>
    /\ UNCHANGED <<webhook_secret, sigcheck, retrieval, flag, wmsg, poll, payments, users, issued, task, outbox>>

\* Mutant of WebhookCheck: the status taken as final is "failed".
WebhookCheckTerminalIsFailed(d) ==
    /\ wpc[d] = "check"
    /\ LET row == get_payment_by_payment_id(payments, wreq[d].id)
       IN  IF row # NoRow /\ row.status = "failed"
           THEN /\ wpc' = [wpc EXCEPT ![d] = "completed"]
                /\ DropLocals(d)
           ELSE /\ wpc' = [wpc EXCEPT ![d] = "resolve"]
                /\ existing_payment' = [existing_payment EXCEPT ![d] = row]
                /\ UNCHANGED wreq
    /\ UNCHANGED <<webhook_secret, sigcheck, retrieval, flag, wmsg, poll, db, resp, task, outbox>>

\* Mutant of WebhookCheck: the status of the payment read is not looked at.
WebhookCheckWithoutIdempotency(d) ==
    /\ wpc[d] = "check"
    /\ LET row == get_payment_by_payment_id(payments, wreq[d].id)
       IN  /\ existing_payment' = [existing_payment EXCEPT ![d] = row]
           /\ wpc' = [wpc EXCEPT ![d] = "resolve"]
    /\ UNCHANGED <<webhook_secret, sigcheck, retrieval, flag, wmsg, poll, db, wreq, resp, task, outbox>>

\* main.py 320-321: the idempotency check reads the payment.
WebhookCheck(d) ==
    /\ wpc[d] = "check"
    /\ LET row == get_payment_by_payment_id(payments, wreq[d].id)
       IN  IF row # NoRow /\ row.status = "completed"
           THEN /\ wpc' = [wpc EXCEPT ![d] = "completed"]
                /\ DropLocals(d)
           ELSE /\ wpc' = [wpc EXCEPT ![d] = "resolve"]
                /\ existing_payment' = [existing_payment EXCEPT ![d] = row]
                /\ UNCHANGED wreq
    /\ UNCHANGED <<webhook_secret, sigcheck, retrieval, flag, wmsg, poll, db, resp, task, outbox>>

\* main.py 322-324
WebhookAlreadyCompleted(d) ==
    /\ wpc[d] = "completed"
    /\ locks' = remove_processing_lock(locks, wreq[d].id)
    /\ Finish(d, "Payment already completed.")
    /\ UNCHANGED <<webhook_secret, sigcheck, retrieval, flag, wmsg, poll, payments, users, issued, task, outbox>>

\* main.py 327-335: razorpay_client.order.fetch (may raise), then the user is
\* looked up by the payload's email.
WebhookResolve(d) ==
    /\ wpc[d] = "resolve"
    /\ \E fetched \in BOOLEAN :
         IF ~fetched
         THEN wpc' = [wpc EXCEPT ![d] = "error"] /\ DropLocals(d)
         ELSE IF get_user_by_email(users, wreq[d].email) = NoUser
         THEN wpc' = [wpc EXCEPT ![d] = "nouser"] /\ DropLocals(d)
         ELSE wpc' = [wpc EXCEPT ![d] = "mark"] /\ UNCHANGED <<wreq, existing_payment>>
    /\ UNCHANGED <<webhook_secret, sigcheck, retrieval, flag, wmsg, poll, db, resp, task, outbox>>

\* Mutant of WebhookUserNotFound: the early return forgets the lock.
WebhookUserNotFoundKeepsLock(d) ==
    /\ wpc[d] = "nouser"
    /\ Finish(d, "User not found.")
    /\ UNCHANGED <<webhook_secret, sigcheck, retrieval, flag, wmsg, poll, locks, payments, users, issued,
                   task, outbox>>

\* main.py 336-338
WebhookUserNotFound(d) ==
    /\ wpc[d] = "nouser"
    /\ locks' = remove_processing_lock(locks, wreq[d].id)
    /\ Finish(d, "User not found.")
    /\ UNCHANGED <<webhook_secret, sigcheck, retrieval, flag, wmsg, poll, payments, users, issued, task, outbox>>

\* Mutant of WebhookMark: a delivery that finds the payment's row adds a row
\* of its own instead of updating the one found.
WebhookMarkInsertsAgain(d) ==
    /\ wpc[d] = "mark"
    /\ LET p == wreq[d].id
           raises == IF existing_payment[d] = NoRow
                     THEN PaymentConstructorRaises \/ PaymentInsertConflicts(payments, p)
                     ELSE FALSE
       IN  /\ IF raises
              THEN /\ wpc' = [wpc EXCEPT ![d] = "error"]
                   /\ DropLocals(d)
                   /\ UNCHANGED <<payments, resp, task>>
              ELSE /\ payments' = [payments EXCEPT ![p] =
                        Append(@, [status |-> "processing", user |-> wreq[d].email])]
                   /\ task' = [task EXCEPT ![d] = "scheduled"]
                   /\ Finish(d, "ok")
    /\ UNCHANGED <<webhook_secret, sigcheck, retrieval, flag, wmsg, poll, locks, users, issued, outbox>>

\* Mutant of WebhookMark: the handler awaits send_email itself before it
\* answers.
WebhookMarkSendsInline(d) ==
    /\ wpc[d] = "mark"
    /\ LET p == wreq[d].id
           raises == IF existing_payment[d] = NoRow
                     THEN PaymentConstructorRaises \/ PaymentInsertConflicts(payments, p)
                     ELSE FALSE
       IN  /\ IF raises
              THEN /\ wpc' = [wpc EXCEPT ![d] = "error"]
                   /\ DropLocals(d)
                   /\ UNCHANGED <<payments, resp, task, outbox>>
              ELSE /\ payments' =
                        IF existing_payment[d] = NoRow
                        THEN [payments EXCEPT ![p] =
                                <<[status |-> "processing", user |-> wreq[d].email]>>]
                        ELSE update_payment_status(payments, p, "processing")
                   /\ outbox' = outbox \cup
                        {[id |-> p, to |-> wreq[d].email,
                          link |-> users[wreq[d].email].invite_link]}
                   /\ task' = [task EXCEPT ![d] = "scheduled"]
                   /\ Finish(d, "ok")
    /\ UNCHANGED <<webhook_secret, sigcheck, retrieval, flag, wmsg, poll, locks, users, issued>>

\* Mutant of WebhookMark: the handler releases the lock itself once the task
\* is scheduled.
WebhookMarkReleasesLock(d) ==
    /\ wpc[d] = "mark"
    /\ LET p == wreq[d].id
           raises == IF existing_payment[d] = NoRow
                     THEN PaymentConstructorRaises \/ PaymentInsertConflicts(payments, p)
                     ELSE FALSE
       IN  /\ IF raises
              THEN /\ wpc' = [wpc EXCEPT ![d] = "error"]
                   /\ DropLocals(d)
                   /\ UNCHANGED <<payments, resp, task, locks>>
              ELSE /\ payments' =
                        IF existing_payment[d] = NoRow
                        THEN [payments EXCEPT ![p] =
                                <<[status |-> "processing", user |-> wreq[d].email]>>]
                        ELSE update_payment_status(payments, p, "processing")
                   /\ task' = [task EXCEPT ![d] = "scheduled"]
                   /\ locks' = remove_processing_lock(locks, p)
                   /\ Finish(d, "ok")
    /\ UNCHANGED <<webhook_secret, sigcheck, retrieval, flag, wmsg, poll, users, issued, outbox>>

\* main.py 341-354, 362: create the payment or set it to processing, schedule
\* the background task, answer ok. An exception goes to the handler at 356.
WebhookMark(d) ==
    /\ wpc[d] = "mark"
    /\ LET p == wreq[d].id
           raises == IF existing_payment[d] = NoRow
                     THEN PaymentConstructorRaises \/ PaymentInsertConflicts(payments, p)
                     ELSE FALSE
       IN  /\ IF raises
              THEN /\ wpc' = [wpc EXCEPT ![d] = "error"]
                   /\ DropLocals(d)
                   /\ UNCHANGED <<payments, resp, task>>
              ELSE /\ payments' =
                        IF existing_payment[d] = NoRow
                        THEN [payments EXCEPT ![p] =
                                <<[status |-> "processing", user |-> wreq[d].email]>>]
                        ELSE update_payment_status(payments, p, "processing")
                   /\ task' = [task EXCEPT ![d] = "scheduled"]
                   /\ Finish(d, "ok")
    /\ UNCHANGED <<webhook_secret, sigcheck, retrieval, flag, wmsg, poll, locks, users, issued, outbox>>

\* Mutant of WebhookError: the except block answers 500 without removing the
\* lock row.
WebhookErrorKeepsLock(d) ==
    /\ wpc[d] = "error"
    /\ Finish(d, "500 Internal Server Error in webhook.")
    /\ UNCHANGED <<webhook_secret, sigcheck, retrieval, flag, wmsg, poll, locks, payments,
                   users, issued, task, outbox>>

\* main.py 356-360: rollback, release the lock, answer 500.
WebhookError(d) ==
    /\ wpc[d] = "error"
    /\ locks' = remove_processing_lock(locks, wreq[d].id)
    /\ Finish(d, "500 Internal Server Error in webhook.")
    /\ UNCHANGED <<webhook_secret, sigcheck, retrieval, flag, wmsg, poll, payments, users, issued, task, outbox>>

\* Mutant of BgImmediateCheck: the finally clause of the immediate check also
\* removes the lock row.
BgImmediateCheckReleasesLock(d) ==
    /\ task[d] = "scheduled"
    /\ wpc[d] = "done"
    /\ LET row == get_payment_by_payment_id(payments, wreq[d].id)
           raises == row # NoRow /\ AttributeReadRaises("email_sent")
       IN  /\ task' = [task EXCEPT ![d] = IF raises THEN "raised" ELSE "main"]
           /\ locks' = IF raises THEN remove_processing_lock(locks, wreq[d].id)
                       ELSE locks
    /\ UNCHANGED <<webhook_secret, sigcheck, retrieval, flag, wmsg, poll, payments, users, issued, wpc,
                   wreq, existing_payment, resp, outbox>>

\* ------------------------------------- process_payment_and_send_email
\* The task runs once its request has been answered (BackgroundTasks).
\* main.py 196-203: the immediate check reads immediate_payment.email_sent
\* with no except clause around it: an AttributeError leaves the task at
\* once, before the try/finally that releases the lock is entered.
BgImmediateCheck(d) ==
    /\ task[d] = "scheduled"
    /\ wpc[d] = "done"
    /\ LET row == get_payment_by_payment_id(payments, wreq[d].id)
       IN  task' = [task EXCEPT ![d] =
                      IF row # NoRow /\ AttributeReadRaises("email_sent")
                      THEN "raised" ELSE "main"]
    /\ UNCHANGED <<webhook_secret, sigcheck, retrieval, flag, wmsg, poll, db, wpc, wreq, existing_payment, resp, outbox>>

\* main.py 209-239: re-fetch, the idempotency checks, the invite link check.
BgFetch(d) ==
    /\ task[d] = "main"
    /\ LET p == wreq[d].id
           row == get_payment_by_payment_id(payments, p)
           user == IF row = NoRow \/ row.user = None THEN NoUser ELSE users[row.user]
       IN  IF row = NoRow \/ user = NoUser
           THEN task' = [task EXCEPT ![d] = "release"] /\ UNCHANGED payments
           ELSE IF AttributeReadRaises("email_sent")
           THEN task' = [task EXCEPT ![d] = "except"] /\ UNCHANGED payments
           ELSE IF row.status = "completed"
           THEN task' = [task EXCEPT ![d] = "release"] /\ UNCHANGED payments
           ELSE IF user.invite_link = NoLink
           THEN /\ payments' = update_payment_status(payments, p, "failed")
                /\ task' = [task EXCEPT ![d] = "release"]
           ELSE task' = [task EXCEPT ![d] = "send"] /\ UNCHANGED payments
    /\ UNCHANGED <<webhook_secret, sigcheck, retrieval, flag, wmsg, poll, locks, users, issued, wpc, wreq,
                   existing_payment, resp, outbox>>

\* main.py 242-250: send_email returns, raises before the transport accepted
\* the message, or raises after it did; email_sent_flag is set on return only.
BgSend(d) ==
    /\ task[d] = "send"
    /\ LET p == wreq[d].id
           row == get_payment_by_payment_id(payments, p)
           mail == [id |-> p, to |-> row.user, link |-> users[row.user].invite_link]
       IN  \E outcome \in {"returned", "refused", "raised_after_transmit"} :
             /\ outbox' = IF outcome = "refused" THEN outbox ELSE outbox \cup {mail}
             /\ task' = [task EXCEPT ![d] =
                           IF outcome = "returned" THEN "complete" ELSE "except"]
    /\ UNCHANGED <<webhook_secret, sigcheck, retrieval, flag, wmsg, poll, db, wpc, wreq, existing_payment, resp>>

\* main.py 254: status completed (the write may raise).
BgComplete(d) ==
    /\ task[d] = "complete"
    /\ \E written \in BOOLEAN :
         IF written
         THEN /\ payments' = update_payment_status(payments, wreq[d].id, "completed")
              /\ task' = [task EXCEPT ![d] = "release"]
         ELSE /\ task' = [task EXCEPT ![d] = "except_sent"]
              /\ UNCHANGED payments
    /\ UNCHANGED <<webhook_secret, sigcheck, retrieval, flag, wmsg, poll, locks, users, issued, wpc, wreq,
                   existing_payment, resp, outbox>>

\* main.py 257-267: rollback; status failed unless email_sent_flag is set.
BgExcept(d) ==
    /\ task[d] \in {"except", "except_sent"}
    /\ payments' = IF task[d] = "except"
                   THEN update_payment_status(payments, wreq[d].id, "failed")
                   ELSE payments
    /\ task' = [task EXCEPT ![d] = "release"]
    /\ UNCHANGED <<webhook_secret, sigcheck, retrieval, flag, wmsg, poll, locks, users, issued, wpc, wreq,
                   existing_payment, resp, outbox>>

\* main.py 268-272: finally, release the lock.
BgRelease(d) ==
    /\ task[d] = "release"
    /\ locks' = remove_processing_lock(locks, wreq[d].id)
    /\ task' = [task EXCEPT ![d] = "done"]
    /\ UNCHANGED <<webhook_secret, sigcheck, retrieval, flag, wmsg, poll, payments, users, issued, wpc, wreq,
                   existing_payment, resp, outbox>>

\* The steps of the task behind the immediate check. No run gets there: a
\* task is scheduled only for a payment row that exists, and for such a row
\* the immediate check raises (BackgroundStopsAtImmediateCheck below).
BgBody(d) ==
    BgFetch(d) \/ BgSend(d) \/ BgComplete(d) \/ BgExcept(d) \/ BgRelease(d)

\* Mutant of create_order: an invite is requested on every order, also for a
\* user who holds a link for the batch ordered.
create_order_always_invites(email, batch) ==
    /\ \E external_ok \in BOOLEAN :
         LET user == get_user_by_email(users, email)
         IN  IF ~external_ok
             THEN UNCHANGED <<users, issued>>
             ELSE /\ issued < MaxInvites
                  /\ issued' = issued + 1
                  /\ users' = [users EXCEPT ![email] =
                        IF user = NoUser
                        THEN [invite_link |-> UserCreateLink(issued + 1), batch |-> batch]
                        ELSE [invite_link |-> issued + 1, batch |-> batch]]
    /\ UNCHANGED <<webhook_secret, sigcheck, retrieval, flag, wmsg, poll, locks, payments,
                   wpc, wreq, existing_payment, resp, task, outbox>>

\* ---------------------------------------------------------- /create-order
\* main.py 150-175: create the Razorpay order, find or create the user, and
\* request an invite for a new user, a user without link, or a changed batch.
\* Either external call may raise (500, nothing stored).
create_order(email, batch) ==
    /\ \E external_ok \in BOOLEAN :
         LET user == get_user_by_email(users, email)
             needs_invite == user = NoUser \/ user.invite_link = NoLink
                                \/ user.batch # batch
         IN  IF ~external_ok \/ ~needs_invite
             THEN UNCHANGED <<users, issued>>
             ELSE /\ issued < MaxInvites
                  /\ issued' = issued + 1
                  /\ users' = [users EXCEPT ![email] =
                        IF user = NoUser
                        THEN [invite_link |-> UserCreateLink(issued + 1), batch |-> batch]
                        ELSE [invite_link |-> issued + 1, batch |-> batch]]
    /\ UNCHANGED <<webhook_secret, sigcheck, retrieval, flag, wmsg, poll, locks, payments, wpc, wreq, existing_payment,
                   resp, task, outbox>>

\* ------------------------------------------------------------------- Next
Next ==
    \/ \E d \in Deliveries : WebhookReceive(d)
    \/ \E d \in Deliveries : WebhookAcquire(d)
    \/ \E d \in Deliveries : WebhookCheck(d)
    \/ \E d \in Deliveries : WebhookAlreadyCompleted(d)
    \/ \E d \in Deliveries : WebhookResolve(d)
    \/ \E d \in Deliveries : WebhookUserNotFound(d)
    \/ \E d \in Deliveries : WebhookMark(d)
    \/ \E d \in Deliveries : WebhookError(d)
    \/ \E d \in Deliveries : BgImmediateCheck(d)
    \/ \E e \in CheckoutEmails, b \in BatchTypes : create_order(e, b)

Spec == Init /\ [][Next]_vars

\* ------------------------------------------------------------ vocabulary
\* Positions of the handler between the lock's acquisition and its response.
Holding == {"check", "completed", "resolve", "nouser", "mark", "error"}

\* A background task that is scheduled or running, and one that has ended
\* (returned, or left by an exception).
TaskActive == {"scheduled", "main", "send", "complete", "except", "except_sent", "release"}
TaskEnded == {"raised", "done"}

StatusOf(p) == get_payment_by_payment_id(payments, p).status

DeliveriesFor(p) == {d \in Deliveries : wreq[d].id = p}

\* No background task gets past its immediate check.
BackgroundStopsAtImmediateCheck ==
    \A d \in Deliveries : task[d] \in {"none", "scheduled", "raised"}

\* ------------------------------------------------------------------ claims
\* C3: for one payment id at most one orchestrator is scheduled or running at
\* any time; a second one is never scheduled while the first has not ended.
C3_AtMostOneOrchestrator ==
    \A p \in PaymentIds :
        Cardinality({d \in DeliveriesFor(p) : task[d] \in TaskActive}) <= 1

\* C3 witness: an orchestrator is scheduled for an id and a duplicate delivery
\* for the same id has been turned away meanwhile.
C3_Witness ==
    \E d1, d2 \in Deliveries :
        /\ d1 # d2
        /\ wreq[d1].id = wreq[d2].id
        /\ task[d1] = "scheduled"
        /\ resp[d2] = "Already processing."

\* C4: never more than one lock row per payment id; the rows of an id are
\* exactly the acquisitions not yet released, so of concurrent attempts one
\* succeeds; an attempt on an id whose row exists ends as the normal
\* "Already processing." outcome and leaves the rows as they are, an attempt
\* on a free id inserts the one row.
C4_LockAtomic ==
    /\ [](\A p \in PaymentIds :
            /\ locks[p] <= 1
            /\ Cardinality({d \in DeliveriesFor(p) :
                   wpc[d] \in Holding \/ task[d] \in TaskActive \cup {"raised"}})
                 = locks[p])
    /\ [][\A d \in Deliveries :
            (wpc[d] = "acquire" /\ wpc'[d] # "acquire") =>
                IF locks[wreq[d].id] > 0
                THEN wpc'[d] = "done" /\ resp'[d] = "Already processing."
                     /\ locks' = locks
                ELSE wpc'[d] = "check" /\ resp'[d] = ""
                     /\ locks' = [locks EXCEPT ![wreq[d].id] = 1]]_vars

\* C4 witness: two deliveries raced for one id; one is inside the handler
\* holding the row, the other was told "Already processing.".
C4_Witness ==
    \E d1, d2 \in Deliveries :
        /\ d1 # d2
        /\ wreq[d1].id = wreq[d2].id
        /\ wpc[d1] \in Holding
        /\ resp[d2] = "Already processing."
        /\ locks[wreq[d1].id] = 1

\* C5: a delivery for a payment whose status is completed goes no further
\* than the idempotency check, is answered "Payment already completed."
\* (or "Already processing." while a duplicate holds the lock), schedules no
\* orchestrator, leaves the payment row and the outbox as they are, and leaves
\* no lock row behind.
C5_CompletedReplayIsNoOp ==
    /\ [](\A d \in Deliveries :
            (wreq[d].id # None /\ StatusOf(wreq[d].id) = "completed") =>
                /\ wpc[d] \in {"acquire", "check", "completed", "done"}
                /\ task[d] = "none"
                /\ wpc[d] = "done" =>
                     resp[d] \in {"Payment already completed.", "Already processing."})
    /\ [](\A p \in PaymentIds :
            (StatusOf(p) = "completed"
               /\ \A d \in DeliveriesFor(p) : wpc[d] \notin {"check", "completed"})
            => locks[p] = 0)
    /\ [][\A p \in PaymentIds :
            StatusOf(p) = "completed" =>
                payments'[p] = payments[p] /\ outbox' = outbox]_vars

\* C5 witness: the webhook of a completed payment was replayed twice, each
\* replay was answered "Payment already completed.", and the lock is free.
C5_Witness ==
    \E d1, d2 \in Deliveries :
        /\ d1 # d2
        /\ wreq[d1].id = wreq[d2].id
        /\ resp[d1] = "Payment already completed."
        /\ resp[d2] = "Payment already completed."
        /\ StatusOf(wreq[d1].id) = "completed"
        /\ locks[wreq[d1].id] = 0

\* C6: a delivery that finds the lock row of its id present is answered
\* "Already processing." in that very step, and the step changes neither the
\* payments nor the lock rows and schedules nothing.
C6_AlreadyProcessing ==
    [][\A d \in Deliveries :
         (wpc[d] = "acquire" /\ locks[wreq[d].id] > 0 /\ wpc'[d] # wpc[d]) =>
             /\ wpc'[d] = "done"
             /\ resp'[d] = "Already processing."
             /\ payments' = payments
             /\ locks' = locks
             /\ task' = task]_vars

\* C6 witness: a delivery was answered "Already processing." and scheduled
\* nothing, the holder's lock row being still there.
C6_Witness ==
    \E d \in Deliveries :
        /\ resp[d] = "Already processing."
        /\ task[d] = "none"
        /\ locks[wreq[d].id] = 1

\* C7: a lock row for an id exists only while a handler for the id is between
\* acquisition and response or an orchestrator for it is scheduled or running.
C7_LockHygiene ==
    \A p \in PaymentIds :
        locks[p] > 0 =>
            \E d \in DeliveriesFor(p) : wpc[d] \in Holding \/ task[d] \in TaskActive

\* C8: a payment whose orchestrator run failed before any send ends in status
\* failed with the lock released (and so can be retried).
C8_FailedRunEndsFailedAndReleased ==
    \A d \in Deliveries :
        task[d] = "raised" =>
            StatusOf(wreq[d].id) = "failed" /\ locks[wreq[d].id] = 0

\* C9: a valid first delivery for an id without payment row, whose user holds
\* an invite link, gets its payment created in processing and its
\* orchestrator scheduled, and is answered ok (from where the payment goes on
\* to completed).
C9_HappyPath ==
    [][\A d \in Deliveries :
         (/\ wpc[d] = "mark"
          /\ existing_payment[d] = NoRow
          /\ get_user_by_email(users, wreq[d].email).invite_link # NoLink
          /\ wpc'[d] # "mark")
         => /\ wpc'[d] = "done"
            /\ resp'[d] = "ok"
            /\ task'[d] = "scheduled"
            /\ StatusOf(wreq[d].id)' = "processing"]_vars

\* C11: a webhook request whose signature is wrong or missing, or that
\* arrives while no webhook secret is configured, is answered 400 and changes
\* nothing: no lock row, no payment row, no orchestrator.
C11_BadSignatureIs400 ==
    [][\A d \in Deliveries :
         (/\ wpc[d] = "idle"
          /\ wpc'[d] # "idle"
          /\ \/ wmsg'[d].signature \in {"wrong", "missing"}
             \/ webhook_secret = "")
         => /\ wpc'[d] = "done"
            /\ resp'[d] = "400 Invalid signature"
            /\ locks' = locks
            /\ payments' = payments
            /\ task' = task]_vars

StatusTransitions ==
    {<<None, "processing">>, <<"processing", "failed">>,
     <<"processing", "completed">>, <<"failed", "processing">>}

update_payment(p, status, link_sent, invite_link) ==
    /\ payments[p] # <<>>
    /\ LET payment == get_payment_by_payment_id(payments, p)
       IN  /\ payments' = IF status # None
                          THEN update_payment_status(payments, p, status)
                          ELSE payments
           /\ users' = IF link_sent /\ payment.user # None
                       THEN [users EXCEPT ![payment.user].invite_link = invite_link]
                       ELSE users
    /\ UNCHANGED <<webhook_secret, sigcheck, retrieval, flag, wmsg, poll, locks, issued, wpc, wreq,
                   existing_payment, resp, task, outbox>>

\* The pipeline together with the admin panel's payment update.
AdminNext ==
    \/ Next
    \/ \E p \in PaymentIds, status \in Statuses \cup {None},
          link_sent \in BOOLEAN, invite_link \in {NoLink, 1} :
            update_payment(p, status, link_sent, invite_link)

AdminSpec == Init /\ [][AdminNext]_vars

\* C15: the status of a payment is changed only by a step of a webhook
\* handler or orchestrator that holds the lock row of the payment's id.
C15_StatusWrittenUnderLock ==
    [][\A p \in PaymentIds :
         StatusOf(p)' # StatusOf(p) =>
            /\ locks[p] = 1
            /\ \E d \in DeliveriesFor(p) :
                  \/ wpc[d] \in Holding /\ wpc'[d] # wpc[d]
                  \/ task[d] \in TaskActive /\ task'[d] # task[d]]_vars

\* C16: there is never more than one payment row for a payment id; a delivery
\* that finds the row of its id leaves the number of rows as it is.
C16_OneRowPerPaymentId ==
    /\ [](\A p \in PaymentIds : Len(payments[p]) <= 1)
    /\ [][\A d \in Deliveries :
            (wpc[d] = "mark" /\ existing_payment[d] # NoRow) =>
                Len(payments'[wreq[d].id]) = Len(payments[wreq[d].id])]_vars

\* C16 witness: a delivery for an id was answered 500 (the order fetch
\* failed), the provider's retry for the same id found the row, set it to
\* processing and scheduled the orchestrator, and the id still has one row.
C16_Witness ==
    \E d1, d2 \in Deliveries :
        /\ d1 # d2
        /\ wreq[d1].id = wreq[d2].id
        /\ resp[d1] = "500 Internal Server Error in webhook."
        /\ resp[d2] = "ok"
        /\ task[d2] = "scheduled"
        /\ Len(payments[wreq[d2].id]) = 1
        /\ StatusOf(wreq[d2].id) = "processing"

\* C17: once an orchestrator has been left by an exception before releasing
\* the lock, its payment is in processing with the lock row present, no step
\* changes either from then on, and every delivery for the id that tries the
\* lock is answered "Already processing." without any change of state.
C17_LeakedLockBlocks ==
    /\ [](\A d \in Deliveries :
            task[d] = "raised" =>
                locks[wreq[d].id] = 1 /\ StatusOf(wreq[d].id) = "processing")
    /\ [][\A d \in Deliveries :
            task[d] = "raised" =>
                /\ task'[d] = "raised"
                /\ payments'[wreq[d].id] = payments[wreq[d].id]
                /\ locks'[wreq[d].id] = locks[wreq[d].id]]_vars
    /\ [][\A d, d2 \in Deliveries :
            (/\ task[d] = "raised"
             /\ wreq[d2].id = wreq[d].id
             /\ wpc[d2] = "acquire"
             /\ wpc'[d2] # "acquire")
            => /\ wpc'[d2] = "done"
               /\ resp'[d2] = "Already processing."
               /\ task'[d2] = "none"
               /\ db' = db]_vars

\* C17 witness: the orchestrator of a delivery was left by an exception, and
\* the next delivery for the same id was answered "Already processing."; the
\* payment is in processing and the lock row is there.
C17_Witness ==
    \E d1, d2 \in Deliveries :
        /\ d1 # d2
        /\ wreq[d1].id = wreq[d2].id
        /\ task[d1] = "raised"
        /\ resp[d2] = "Already processing."
        /\ task[d2] = "none"
        /\ StatusOf(wreq[d1].id) = "processing"
        /\ locks[wreq[d1].id] = 1

\* C18: a webhook that passes the signature check and whose event is not
\* payment.captured is answered ok in that step, which inserts no lock row,
\* creates or changes no payment and schedules no orchestrator.
C18_OtherEventsAcknowledged ==
    [][\A d \in Deliveries :
         (/\ wpc[d] = "idle"
          /\ wpc'[d] # "idle"
          /\ wmsg'[d].signature = "valid"
          /\ webhook_secret = "whsec"
          /\ wmsg'[d].event # "payment.captured")
         => /\ wpc'[d] = "done"
            /\ resp'[d] = "ok"
            /\ db' = db
            /\ task' = task
            /\ outbox' = outbox]_vars

\* C18 witness: a correctly signed payment.failed event was answered ok; it
\* never took a payment id into the handler and scheduled nothing.
C18_Witness ==
    \E d \in Deliveries :
        /\ wmsg[d].event = "payment.failed"
        /\ wmsg[d].signature = "valid"
        /\ webhook_secret = "whsec"
        /\ resp[d] = "ok"
        /\ wreq[d].id = None
        /\ task[d] = "none"

\* C19: no step of a webhook handler calls the invite provider or the email
\* transport, and the orchestrator of a delivery takes its first step, and so
\* any send, only after the delivery has been answered ok.
C19_ResponseNeverWaits ==
    /\ [][\A d \in Deliveries :
            wpc'[d] # wpc[d] => outbox' = outbox /\ issued' = issued]_vars
    /\ [](\A d \in Deliveries :
            task[d] # "none" => wpc[d] = "done" /\ resp[d] = "ok")
    /\ [][outbox' # outbox =>
            \E d \in Deliveries : task[d] = "send" /\ wpc[d] = "done"]_vars

\* C19 witness: a delivery was answered ok with its orchestrator scheduled,
\* and the orchestrator has run since; the handler left the outbox empty.
C19_Witness ==
    \E d \in Deliveries :
        /\ resp[d] = "ok"
        /\ wpc[d] = "done"
        /\ task[d] = "raised"
        /\ outbox = {}

\* ------------------------------------------------- POST /get-invite-link
\* range(5) at main.py 370.
PollAttempts == 5

\* main.py 373: payment and payment.user and payment.user.invite_link
InviteLinkPresent(p) ==
    LET payment == get_payment_by_payment_id(payments, p)
    IN  /\ payment # NoRow
        /\ payment.user # None
        /\ users[payment.user].invite_link # NoLink

\* main.py 366-367: the request names a payment id.
PollStart(p) ==
    /\ poll.pc = "idle"
    /\ poll' = [poll EXCEPT !.pc = "reading", !.paymentId = p]
    /\ UNCHANGED <<webhook_secret, sigcheck, retrieval, flag, wmsg, db, wpc, wreq, existing_payment, resp,
                   task, outbox>>

\* Mutant of PollRead: the read is content with the payment and its user.
PollReadIgnoresLink ==
    /\ poll.pc = "reading"
    /\ poll.reads < PollAttempts
    /\ LET payment == get_payment_by_payment_id(payments, poll.paymentId)
       IN  IF payment # NoRow /\ payment.user # None
           THEN poll' = [poll EXCEPT !.pc = "done", !.reads = @ + 1, !.code = 200,
                           !.inviteLink = users[payment.user].invite_link]
           ELSE poll' = [poll EXCEPT !.reads = @ + 1]
    /\ UNCHANGED <<webhook_secret, sigcheck, retrieval, flag, wmsg, db, wpc, wreq, existing_payment, resp,
                   task, outbox>>

\* main.py 370-384: one pass of the loop: expire_all, read the payment, return
\* the stored link if there is one, else sleep.
PollRead ==
    /\ poll.pc = "reading"
    /\ poll.reads < PollAttempts
    /\ LET payment == get_payment_by_payment_id(payments, poll.paymentId)
       IN  IF InviteLinkPresent(poll.paymentId)
           THEN poll' = [poll EXCEPT !.pc = "done", !.reads = @ + 1, !.code = 200,
                           !.inviteLink = users[payment.user].invite_link]
           ELSE poll' = [poll EXCEPT !.reads = @ + 1]
    /\ UNCHANGED <<webhook_secret, sigcheck, retrieval, flag, wmsg, db, wpc, wreq, existing_payment, resp,
                   task, outbox>>

\* main.py 386-389: the loop is exhausted.
PollNotFound ==
    /\ poll.pc = "reading"
    /\ poll.reads = PollAttempts
    /\ poll' = [poll EXCEPT !.pc = "done", !.code = 404]
    /\ UNCHANGED <<webhook_secret, sigcheck, retrieval, flag, wmsg, db, wpc, wreq, existing_payment, resp,
                   task, outbox>>

\* The endpoint together with the operations that write what it reads: the
\* checkout and the admin update store invite links while it sleeps. The
\* request's coroutine is resumed after each sleep.
PollNext ==
    \/ \E p \in PaymentIds : PollStart(p)
    \/ PollRead
    \/ PollNotFound
    \/ \E e \in CheckoutEmails, b \in BatchTypes : create_order(e, b)
    \/ \E p \in PaymentIds, status \in Statuses \cup {None},
          link_sent \in BOOLEAN, invite_link \in {NoLink, 1} :
            update_payment(p, status, link_sent, invite_link)

PollSpec ==
    Init /\ [][PollNext]_vars /\ WF_vars(PollRead) /\ WF_vars(PollNotFound)

\* C20: the polling endpoint reads the payment at most 5 times and then
\* answers: a read that finds payment, user and invite link answers success
\* with that link at once, a read that does not is followed by the next read,
\* and 404 is answered after the fifth read found nothing, and only then.
C20_PollTerminates ==
    /\ [](/\ poll.reads <= PollAttempts
          /\ poll.pc = "done" =>
               \/ poll.code = 200 /\ poll.inviteLink # NoLink
               \/ poll.code = 404 /\ poll.reads = PollAttempts)
    /\ [][(poll.pc = "reading" /\ poll' # poll) =>
            IF poll.reads = PollAttempts
            THEN poll' = [poll EXCEPT !.pc = "done", !.code = 404]
            ELSE IF InviteLinkPresent(poll.paymentId)
            THEN /\ poll'.pc = "done"
                 /\ poll'.code = 200
                 /\ poll'.reads = poll.reads + 1
                 /\ poll'.inviteLink =
                      users[get_payment_by_payment_id(payments, poll.paymentId).user].invite_link
            ELSE poll' = [poll EXCEPT !.reads = @ + 1]]_vars
    /\ (poll.pc = "reading" ~> poll.pc = "done")

\* C20 witness: a poll read five times, found no link and was answered 404.
C20_Witness ==
    /\ poll.pc = "done"
    /\ poll.code = 404
    /\ poll.reads = PollAttempts

\* --------------------------------- GET /retrieve-invite-link/{payment_id}
\* Mutant of retrieve_invite_link: the failure response always says
\* not_found.
retrieve_invite_link_always_not_found(payment_id) ==
    /\ LET payment == get_payment_by_payment_id(payments, payment_id)
       IN  retrieval' =
             IF InviteLinkPresent(payment_id)
             THEN [payment_id |-> payment_id, code |-> 200,
                   status |-> payment.status,
                   inviteLink |-> users[payment.user].invite_link]
             ELSE [payment_id |-> payment_id, code |-> 404,
                   status |-> "not_found", inviteLink |-> NoLink]
    /\ UNCHANGED <<webhook_secret, sigcheck, flag, wmsg, poll, db, wpc, wreq,
                   existing_payment, resp, task, outbox>>

\* main.py 391-416: one read of the payment; the stored link and the status
\* if payment, user and link are there, else 404 with the payment's status,
\* or not_found when there is no payment.
retrieve_invite_link(payment_id) ==
    /\ LET payment == get_payment_by_payment_id(payments, payment_id)
       IN  retrieval' =
             IF InviteLinkPresent(payment_id)
             THEN [payment_id |-> payment_id, code |-> 200,
                   status |-> payment.status,
                   inviteLink |-> users[payment.user].invite_link]
             ELSE [payment_id |-> payment_id, code |-> 404,
                   status |-> IF payment # NoRow THEN payment.status
                              ELSE "not_found",
                   inviteLink |-> NoLink]
    /\ UNCHANGED <<webhook_secret, sigcheck, flag, wmsg, poll, db, wpc, wreq,
                   existing_payment, resp, task, outbox>>

\* The two retrieval endpoints together with the operations that write what
\* they read.
RetrieveNext ==
    \/ PollNext
    \/ \E p \in PaymentIds : retrieve_invite_link(p)

RetrieveSpec == Init /\ [][RetrieveNext]_vars

\* C21: the failure response of the single-shot endpoint says not_found
\* exactly when the id has no payment row and otherwise gives the payment's
\* status at the time of the read; its success response gives the stored
\* invite link and that status.
C21_RetrieveReportsStatus ==
    [][retrieval' # retrieval =>
         LET p == retrieval'.payment_id
             payment == get_payment_by_payment_id(payments, p)
         IN  /\ retrieval'.code \in {200, 404}
             /\ retrieval'.code = 404 =>
                  /\ (retrieval'.status = "not_found") <=> (payments[p] = <<>>)
                  /\ payments[p] # <<>> => retrieval'.status = payment.status
             /\ retrieval'.code = 200 =>
                  /\ payment # NoRow
                  /\ retrieval'.status = payment.status
                  /\ retrieval'.inviteLink = users[payment.user].invite_link
                  /\ retrieval'.inviteLink # NoLink]_vars

\* C21 witness: the endpoint answered 404 with status failed for a payment
\* that exists and whose user holds no link.
C21_Witness ==
    /\ retrieval.code = 404
    /\ retrieval.status = "failed"
    /\ payments[retrieval.payment_id] # <<>>

\* C22: a retrieval endpoint, polling or single-shot, answers success with an
\* invite link only for a payment whose status is completed at that read.
C22_LinkOnlyOnceCompleted ==
    /\ [][(poll'.code = 200 /\ poll.code # 200) =>
            StatusOf(poll.paymentId) = "completed"]_vars
    /\ [][(retrieval' # retrieval /\ retrieval'.code = 200) =>
            StatusOf(retrieval'.payment_id) = "completed"]_vars

\* ------------------------------------------------ the email_sent flag
\* crud.update_payment_status(db, payment_id, "completed", email_sent=True),
\* the call of main.py 254, applied to a stored payment: the status column is
\* written; db_payment.email_sent = True sets an attribute of the loaded
\* object, which is no column and is not part of what commit stores.
MarkEmailSent(p) ==
    /\ payments[p] # <<>>
    /\ payments' = update_payment_status(payments, p, "completed")
    /\ flag' = [flag EXCEPT ![p].written = "True"]
    /\ UNCHANGED <<webhook_secret, sigcheck, retrieval, wmsg, poll, locks, users, issued,
                   wpc, wreq, existing_payment, resp, task, outbox>>

\* main.py 196-199: a new session loads the payment and reads email_sent: the
\* stored value if the class declares the column, else AttributeError.
FreshRead(p) ==
    /\ payments[p] # <<>>
    /\ flag' = [flag EXCEPT ![p].read =
                  IF AttributeReadRaises("email_sent") THEN "AttributeError"
                  ELSE IF flag[p].written = None THEN "False"
                  ELSE flag[p].written]
    /\ UNCHANGED <<webhook_secret, sigcheck, retrieval, wmsg, poll, db, wpc, wreq,
                   existing_payment, resp, task, outbox>>

\* The write and the read of the flag, applied to the stored payments.
FlagNext ==
    \/ \E p \in PaymentIds : MarkEmailSent(p)
    \/ \E p \in PaymentIds : FreshRead(p)
    \/ \E p \in PaymentIds, status \in Statuses \cup {None},
          link_sent \in BOOLEAN, invite_link \in {NoLink, 1} :
            update_payment(p, status, link_sent, invite_link)

FlagSpec == Init /\ [][FlagNext]_vars

\* C23: once email_sent has been set to true for a payment, every later read
\* of the payment from a new session observes email_sent = true.
C23_EmailSentDurable ==
    [][\A p \in PaymentIds :
         (flag[p].written = "True" /\ flag'[p].read # flag[p].read) =>
             flag'[p].read = "True"]_vars

\* The checkout on its own, on the users the service finds stored.
OrderNext == \E e \in CheckoutEmails, b \in BatchTypes : create_order(e, b)

OrderSpec == Init /\ [][OrderNext]_vars

\* C24: checkout provisions invites idempotently per user and batch: the
\* stored link and batch of a user who holds a link change only with an order
\* for another batch, which stores a newly issued invite together with that
\* batch; an order for the batch the user is in requests no invite.
C24_InviteReusedPerBatch ==
    /\ [][\A e \in Emails, b \in BatchTypes :
            (/\ create_order(e, b)
             /\ users[e] # NoUser
             /\ users[e].invite_link # NoLink
             /\ users[e].batch = b)
            => UNCHANGED <<users, issued>>]_vars
    /\ [][\A e \in Emails :
            (/\ users[e] # NoUser
             /\ users[e].invite_link # NoLink
             /\ users'[e] # users[e])
            => /\ users'[e].batch # users[e].batch
               /\ issued' = issued + 1
               /\ users'[e].invite_link = issued'
               /\ users'[e].invite_link # users[e].invite_link]_vars

\* C24 witness: a user who was stored before (their payments are there) has
\* changed batch at checkout and holds the second invite issued, for the
\* evening batch.
C24_Witness ==
    /\ \E p \in PaymentIds : payments[p] # <<>>
    /\ issued = 2
    /\ users["a@x.com"] = [invite_link |-> 2, batch |-> "evening"]

\* C25: whichever way an orchestrator run ends, the step that ends it leaves
\* no lock row for its payment id.
C25_EveryExitReleasesLock ==
    [][\A d \in Deliveries :
         (task[d] \notin TaskEnded /\ task'[d] \in TaskEnded) =>
             locks'[wreq[d].id] = 0]_vars

\* C29: a delivery that has resolved its user and found no payment row for
\* its id creates the row in processing, schedules the orchestrator and is
\* answered ok; an orchestrator is scheduled only for an id whose payment row
\* exists and is in processing.
C29_CreatedBeforeScheduled ==
    /\ [][\A d \in Deliveries :
            (/\ wpc[d] = "mark"
             /\ existing_payment[d] = NoRow
             /\ payments[wreq[d].id] = <<>>
             /\ wpc'[d] # "mark")
            => /\ Len(payments'[wreq[d].id]) = 1
               /\ StatusOf(wreq[d].id)' = "processing"
               /\ task'[d] = "scheduled"
               /\ resp'[d] = "ok"]_vars
    /\ [][\A d \in Deliveries :
            (task[d] = "none" /\ task'[d] = "scheduled") =>
                StatusOf(wreq[d].id)' = "processing"]_vars

\* C30: an exception in the webhook handler between the lock's acquisition
\* and the scheduling of the orchestrator ends the request with a 500, the
\* lock row deleted and no orchestrator scheduled, the payments left as they
\* were; the id's lock is free for the retry.
C30_ErrorReleasesLock ==
    /\ [][\A d \in Deliveries :
            (wpc[d] \in Holding \ {"error"} /\ wpc'[d] = "error") =>
                /\ task'[d] = "none"
                /\ payments' = payments
                /\ locks'[wreq[d].id] = 1]_vars
    /\ [][\A d \in Deliveries :
            (wpc[d] = "error" /\ wpc'[d] # "error") =>
                /\ wpc'[d] = "done"
                /\ resp'[d] = "500 Internal Server Error in webhook."
                /\ locks'[wreq[d].id] = 0
                /\ task'[d] = "none"
                /\ payments' = payments]_vars
    /\ [](\A d \in Deliveries :
            resp[d] = "500 Internal Server Error in webhook." => task[d] = "none")

\* C30 witness: a delivery was answered 500 after it had taken the lock, and
\* the retry for the same id has acquired the lock again.
C30_Witness ==
    \E d1, d2 \in Deliveries :
        /\ d1 # d2
        /\ wreq[d1].id = wreq[d2].id
        /\ resp[d1] = "500 Internal Server Error in webhook."
        /\ task[d1] = "none"
        /\ wpc[d2] = "check"
        /\ locks[wreq[d2].id] = 1

\* C33: an orchestrator run for a payment whose user has no invite link
\* recorded ends with the payment's status failed, with no email handed to
\* the notifier and no invite requested from the provider.
C33_NoInviteLinkEndsFailed ==
    [][\A d \in Deliveries :
         (/\ task[d] \notin TaskEnded
          /\ task'[d] \in TaskEnded
          /\ get_payment_by_payment_id(payments, wreq[d].id) # NoRow
          /\ get_user_by_email(users,
                 get_payment_by_payment_id(payments, wreq[d].id).user)
                 .invite_link = NoLink)
         => /\ StatusOf(wreq[d].id)' = "failed"
            /\ outbox' = outbox
            /\ issued' = issued]_vars

\* C34: a create_order call that stores something for a user (a new user, a
\* user without link, or a change of batch) leaves the stored user with a
\* non-empty invite link for the batch ordered.
C34_CheckoutStoresInviteLink ==
    [][\A e \in Emails :
         users'[e] # users[e] =>
             /\ users'[e].invite_link # NoLink
             /\ users'[e].batch \in BatchTypes]_vars

\* --------------------------------------------------------- verify_signature
\* The function on its own, on any request body, any header a client can
\* send (none, or the digest of any body under any key, the empty key and
\* the configured one included) and either setting of the secret. The
\* function keeps no state: one call per behaviour shows all it can do.
Bodies == [event : Events, id : PaymentIds, email : Emails]
SigningKeys == Secrets \cup {"forged"}
SignatureHeaders ==
    {NoSignature} \cup
    {[present |-> TRUE, hex |-> HmacHex(k, b)] : k \in SigningKeys, b \in Bodies}

VerifyCall ==
    /\ sigcheck.result = None
    /\ \E body \in Bodies, signature \in SignatureHeaders, secret \in Secrets :
         sigcheck' = [body |-> body, signature |-> signature, secret |-> secret,
                      result |-> verify_signature(body, signature, secret)]
    /\ UNCHANGED <<webhook_secret, retrieval, flag, wmsg, poll, db, wpc, wreq,
                   existing_payment, resp, task, outbox>>

SignatureNext == VerifyCall

SignatureSpec == Init /\ [][SignatureNext]_vars

\* C35: verify_signature returns true exactly when the secret is set and the
\* signature given is the hex HMAC-SHA256 of the body given under that
\* secret; with the secret unset it returns false whatever the body and the
\* signature are.
C35_VerifySignature ==
    sigcheck.result # None =>
        /\ sigcheck.result = "True" <=>
              /\ sigcheck.secret # ""
              /\ sigcheck.signature.present
              /\ sigcheck.signature.hex = HmacHex(sigcheck.secret, sigcheck.body)
        /\ sigcheck.secret = "" => sigcheck.result = "False"

\* C35 witness: a call under the configured secret returned true.
C35_Witness ==
    /\ sigcheck.result # None
    /\ sigcheck.secret = "whsec"
    /\ sigcheck.result = "True"

\* C36: remove_processing_lock leaves no lock row for the payment id given,
\* changes nothing when there was none, leaves the rows of every other id as
\* they were, and a second call changes nothing the first has not changed.
C36_ReleaseIdempotent ==
    \A p \in PaymentIds :
        LET once == remove_processing_lock(locks, p)
            twice == remove_processing_lock(once, p)
        IN  /\ once[p] = 0
            /\ locks[p] = 0 => once = locks
            /\ twice = once
            /\ \A q \in PaymentIds \ {p} : once[q] = locks[q]

\* C36 witness: one delivery has released the lock of its payment id while
\* another delivery holds the lock of the other id, which is still there.
C36_Witness ==
    \E d1, d2 \in Deliveries :
        /\ wreq[d1].id # None
        /\ wreq[d2].id # None
        /\ wreq[d1].id # wreq[d2].id
        /\ resp[d1] = "User not found."
        /\ locks[wreq[d1].id] = 0
        /\ wpc[d2] \in Holding
        /\ locks[wreq[d2].id] = 1

\* C37: a lock row is deleted only in a step of the delivery that inserted
\* it, taken by its handler between acquisition and response or by the
\* orchestrator it scheduled; and as long as that handler is in flight or
\* that orchestrator is scheduled, the row is there.
C37_OnlyHolderReleases ==
    /\ [](\A d \in Deliveries :
            (wpc[d] \in Holding \/ task[d] = "scheduled") =>
                locks[wreq[d].id] = 1)
    /\ [][\A p \in PaymentIds :
            locks'[p] < locks[p] =>
                \E d \in DeliveriesFor(p) :
                    \/ wpc[d] \in Holding /\ wpc'[d] = "done"
                    \/ task[d] \in TaskActive /\ task'[d] \in TaskEnded]_vars

\* C37 witness: a delivery was refused the lock of the id another delivery
\* held; the row outlived the refusal and went with the holder's own
\* response.
C37_Witness ==
    \E d1, d2 \in Deliveries :
        /\ wreq[d1].id # None
        /\ wreq[d1].id = wreq[d2].id
        /\ resp[d2] = "Already processing."
        /\ resp[d1] = "User not found."
        /\ locks[wreq[d1].id] = 0

\* C39: a step of a webhook delivery or of its orchestrator leaves the lock
\* rows and the payment rows of every payment id other than its own as they
\* are; and a delivery whose own id has no lock row acquires the lock,
\* whatever other ids are locked: it is never answered "Already processing.".
C39_IndependentIds ==
    /\ [][\A d \in Deliveries :
            (wpc'[d] # wpc[d] \/ task'[d] # task[d]) =>
                \A q \in PaymentIds \ {wreq'[d].id} :
                    locks'[q] = locks[q] /\ payments'[q] = payments[q]]_vars
    /\ [][\A d \in Deliveries :
            (/\ wpc[d] = "acquire"
             /\ wpc'[d] # "acquire"
             /\ locks[wreq[d].id] = 0)
            => wpc'[d] = "check" /\ resp'[d] # "Already processing."]_vars

\* C39 witness: two deliveries for different payment ids are inside the
\* handler at once, each holding the lock row of its id.
C39_Witness ==
    \E d1, d2 \in Deliveries :
        /\ wpc[d1] \in Holding
        /\ wpc[d2] \in Holding
        /\ wreq[d1].id # wreq[d2].id
        /\ locks[wreq[d1].id] = 1
        /\ locks[wreq[d2].id] = 1

====
